---- MODULE Spec2Model ----
(***************************************************************************)
(* A model of src/netcdf/netcdf_creation.py: the run of main() over a      *)
(* folder of single-band tiles, from the directory scan to the streamed    *)
(* NetCDF write.  A file name is a sequence of one-character strings, so   *)
(* that the regular expression, str.lower(), int() and sorted() are        *)
(* computed character by character as Python computes them.                *)
(***************************************************************************)
EXTENDS Integers, Sequences, FiniteSets, TLC

(***************************************************************************)
(* Characters and strings                                                  *)
(***************************************************************************)
UpperCase == <<"A","B","C","D","E","F","G","H","I","J","K","L","M",
               "N","O","P","Q","R","S","T","U","V","W","X","Y","Z">>

LowerCase == <<"a","b","c","d","e","f","g","h","i","j","k","l","m",
               "n","o","p","q","r","s","t","u","v","w","x","y","z">>

Digits == <<"0","1","2","3","4","5","6","7","8","9">>

Range(s) == { s[k] : k \in DOMAIN s }

UpperSet == Range(UpperCase)
LowerSet == Range(LowerCase)
DigitSet == Range(Digits)

\* the lower-case letter of each upper-case letter
LowerOf == [ch \in UpperSet |-> LowerCase[CHOOSE k \in DOMAIN UpperCase : UpperCase[k] = ch]]

\* the value of each decimal digit
DigitValue == [ch \in DigitSet |-> (CHOOSE k \in DOMAIN Digits : Digits[k] = ch) - 1]

\* str.lower() on one character
LowerChar(ch) == IF ch \in UpperSet THEN LowerOf[ch] ELSE ch

\* str.lower()
Lower(s) == [k \in DOMAIN s |-> LowerChar(s[k])]

\* the code point of each character the names of the model are written in
CodePoint ==
    [ch \in DigitSet \cup UpperSet \cup LowerSet \cup {"-", ".", "_", "\n"} |->
        IF ch \in DigitSet THEN 48 + DigitValue[ch]
        ELSE IF ch \in UpperSet
             THEN 64 + (CHOOSE k \in DOMAIN UpperCase : UpperCase[k] = ch)
        ELSE IF ch \in LowerSet
             THEN 96 + (CHOOSE k \in DOMAIN LowerCase : LowerCase[k] = ch)
        ELSE IF ch = "-" THEN 45
        ELSE IF ch = "." THEN 46
        ELSE IF ch = "_" THEN 95
        ELSE 10]

Ord(ch) == CodePoint[ch]

\* Python's < on str: lexicographic by code point, a proper prefix first
RECURSIVE StrLess(_, _)
StrLess(s, t) ==
    IF t = <<>> THEN FALSE
    ELSE IF s = <<>> THEN TRUE
    ELSE IF Ord(s[1]) # Ord(t[1]) THEN Ord(s[1]) < Ord(t[1])
    ELSE StrLess(Tail(s), Tail(t))

\* int() on a string of decimal digits
RECURSIVE IntOf(_)
IntOf(s) ==
    IF s = <<>> THEN 0
    ELSE 10 * IntOf(SubSeq(s, 1, Len(s) - 1)) + DigitValue[s[Len(s)]]

\* str.endswith(".tif")
EndsWithTif(s) ==
    /\ Len(s) >= 4
    /\ SubSeq(s, Len(s) - 3, Len(s)) = <<".","t","i","f">>

(***************************************************************************)
(* STRICT_REGEX, compiled with re.IGNORECASE, and its named groups         *)
(***************************************************************************)
Separators == {"_", "-"}

\* [a-z] under IGNORECASE
IsLetter(ch) == LowerChar(ch) \in LowerSet

\* [fmt] under IGNORECASE
IsGenderCode(ch) == LowerChar(ch) \in {"f", "m", "t"}

\* \d
IsDigit(ch) == ch \in DigitSet

\* . (any character but a newline)
IsDot(ch) == ch # "\n"

\* \.tif$ : the extension at the end of the string, or before one last newline
TifAtEnd(s) ==
    \/ Lower(s) = <<".","t","i","f">>
    \/ Lower(s) = <<".","t","i","f","\n">>

\* (?:[_-].+)?\.tif$ on what follows the year
TailMatches(rest) ==
    \/ TifAtEnd(rest)
    \/ \E k \in 3..Len(rest) :
          /\ rest[1] \in Separators
          /\ \A j \in 2..(k - 1) : IsDot(rest[j])
          /\ TifAtEnd(SubSeq(rest, k, Len(rest)))

\* STRICT_REGEX.match(fn)
Match(fn) ==
    /\ Len(fn) >= 17
    /\ \A k \in 1..3 : IsLetter(fn[k])
    /\ fn[4] \in Separators
    /\ IsGenderCode(fn[5])
    /\ fn[6] \in Separators
    /\ \A k \in 7..8 : IsDigit(fn[k])
    /\ fn[9] \in Separators
    /\ \A k \in 10..13 : IsDigit(fn[k])
    /\ TailMatches(SubSeq(fn, 14, Len(fn)))

GroupGender(fn) == <<fn[5]>>
GroupAge(fn) == SubSeq(fn, 7, 8)
GroupYear(fn) == SubSeq(fn, 10, 13)

\* the record with the gender group stored as written in the name
MakeRecAsWritten(fn) ==
    [filename |-> fn,
     gender   |-> GroupGender(fn),
     age      |-> GroupAge(fn),
     year     |-> GroupYear(fn)]

\* the record recs.append() stores for a matching name
MakeRec(fn) ==
    [filename |-> fn,
     gender   |-> Lower(GroupGender(fn)),
     age      |-> GroupAge(fn),
     year     |-> GroupYear(fn)]

(***************************************************************************)
(* sorted() over a set                                                     *)
(***************************************************************************)
\* sorted(S) for a set of str
RECURSIVE SortedStr(_)
SortedStr(S) ==
    IF S = {} THEN <<>>
    ELSE LET m == CHOOSE m \in S : \A o \in S : ~StrLess(o, m)
         IN  <<m>> \o SortedStr(S \ {m})

\* sorted(S, key=int) for a set of digit strings
RECURSIVE SortedByInt(_)
SortedByInt(S) ==
    IF S = {} THEN <<>>
    ELSE LET m == CHOOSE m \in S : \A o \in S : IntOf(m) <= IntOf(o)
         IN  <<m>> \o SortedByInt(S \ {m})

\* the distinct values of a sequence, in order of first appearance
RECURSIVE FirstSeen(_)
FirstSeen(s) ==
    IF s = <<>> THEN <<>>
    ELSE LET init == FirstSeen(SubSeq(s, 1, Len(s) - 1))
         IN  IF s[Len(s)] \in Range(init) THEN init ELSE Append(init, s[Len(s)])

(***************************************************************************)
(* The input folder: names built to the documented pattern, and tiles      *)
(***************************************************************************)
\* <country><sep><axis1><sep><axis2><sep><period>[<sep><anything>].<ext>
BuildName(t) ==
    t.country \o <<t.sep[1]>> \o t.gender \o <<t.sep[2]>> \o t.age
              \o <<t.sep[3]>> \o t.year \o t.qual \o t.ext

Tif == <<".","t","i","f">>

Y2024 == <<"2","0","2","4">>
Y2025 == <<"2","0","2","5">>

Tuple(country, sep, gender, age, year, qual, ext) ==
    [country |-> country, sep |-> sep, gender |-> gender, age |-> age,
     year |-> year, qual |-> qual, ext |-> ext]

\* the files a folder of the model may hold
CatalogTuples ==
    << Tuple(<<"t","c","d">>, <<"_","_","_">>, <<"f">>, <<"0","0">>, Y2025, <<>>, Tif),
       Tuple(<<"t","c","d">>, <<"-","-","-">>, <<"M">>, <<"0","1">>, Y2025,
             <<"_","v","1">>, <<".","T","I","F">>),
       Tuple(<<"k","e","n">>, <<"_","_","_">>, <<"F">>, <<"0","0">>, Y2025, <<>>, Tif),
       Tuple(<<"t","c","d">>, <<"_","-","_">>, <<"m">>, <<"0","0">>, Y2025, <<>>, Tif),
       Tuple(<<"t","c","d">>, <<"_","_","_">>, <<"f">>, <<"1","0">>, Y2024, <<>>, Tif),
       Tuple(<<"t","c","d">>, <<"_","_","_">>, <<"x">>, <<"0","0">>, Y2025, <<>>, Tif),
       Tuple(<<"t","c","d">>, <<"_","_","_">>, <<"f">>, <<"0","1">>, Y2025, <<>>,
             <<".","t","x","t">>) >>

\* every sequence of at most n distinct indices of the catalog: a directory
\* listing, in the order os.listdir returns it
RECURSIVE Listings(_)
Listings(n) ==
    IF n = 0 THEN { <<>> }
    ELSE LET shorter == Listings(n - 1)
         IN  shorter \cup
             { Append(p[1], p[2]) :
                 p \in { q \in shorter \X DOMAIN CatalogTuples :
                            Len(q[1]) = n - 1 /\ q[2] \notin Range(q[1]) } }


\* the most files a folder of the model holds
MaxFiles == 3

\* what rasterio.open reports for a tile all of whose properties are the common ones
BaseTile ==
    [crs       |-> "EPSG:4326",
     transform |-> [a |-> 1, b |-> 0, c |-> 0, d |-> 0, e |-> -1, f |-> 0],
     height    |-> 2,
     width     |-> 2,
     dtype     |-> "uint8",
     nodata    |-> 0]

Coefficients == {"a", "b", "c", "d", "e", "f"}

\* the single properties in which one tile of a folder may differ from the others
Deviations == {"crs", "height", "width", "dtype"} \cup Coefficients

Deviate(t, kind) ==
    IF kind = "crs" THEN [t EXCEPT !.crs = "EPSG:3857"]
    ELSE IF kind = "height" THEN [t EXCEPT !.height = @ + 1]
    ELSE IF kind = "width" THEN [t EXCEPT !.width = @ + 1]
    ELSE IF kind = "dtype" THEN [t EXCEPT !.dtype = "float32"]
    ELSE IF kind \in Coefficients THEN [t EXCEPT !.transform[kind] = @ + 1]
    ELSE t

\* a 2-D array: what src.read(1) or a computed da.zeros returns
Array(h, w, dtype, value) ==
    [shape |-> <<h, w>>, dtype |-> dtype,
     px |-> [p \in (1..h) \X (1..w) |-> value]]

\* the file on disk: its header and its band 1, every pixel holding the number
\* of the file in the catalog
TileFile(t, k) ==
    [crs |-> t.crs, transform |-> t.transform, height |-> t.height,
     width |-> t.width, dtype |-> t.dtype, nodata |-> t.nodata,
     band1 |-> Array(t.height, t.width, t.dtype, k)]

(***************************************************************************)
(* The state of a run of main()                                            *)
(***************************************************************************)
VARIABLES
    tuples,       \* the tuples the names in the folder were built from
    listing,      \* os.listdir(INPUT_FOLDER)
    disk,         \* file name -> the tile stored under it
    YEAR_FILTER,  \* the configured year, <<>> (falsy) to pick the latest
    pc,           \* the step main() is at
    files, recs, year, genders, ages,
    ref,          \* h, w, crs, transform, dtype, nodata of the sample raster
    i,            \* the loop index of the consistency check
    mat, row, tiles, gi, ai, data,
    ds,           \* the xarray Dataset
    pending,      \* the slabs the streamed write has not computed yet
    computed,     \* slab -> the array its deferred computation returned
    reads,        \* the src.read(1) calls executed so far, by path
    output,       \* the artifact at OUTPUT_PATH
    log,          \* what log() printed
    exit          \* how the run was aborted, if it was

vars == <<tuples, listing, disk, YEAR_FILTER, pc, files, recs, year, genders,
          ages, ref, i, mat, row, tiles, gi, ai, data, ds, pending, computed,
          reads, output, log, exit>>

NoTile == [crs |-> "", transform |-> [k \in Coefficients |-> 0], height |-> 0,
           width |-> 0, dtype |-> "", nodata |-> 0]

NoArray == [kind |-> "", fp |-> <<>>, shape |-> <<>>, dtype |-> "", parts |-> <<>>]

NoDataset ==
    [population |-> NoArray, gender |-> <<>>, age_group |-> <<>>, x |-> <<>>,
     y |-> <<>>, year |-> <<>>, crs |-> "", GeoTransform |-> <<>>]

NoOutput == [exists |-> FALSE, ds |-> NoDataset, slabs |-> <<>>]

NoExit == [kind |-> "", file |-> <<>>]

Msg(kind, args) == [kind |-> kind, args |-> args]

\* the locals of main() before it has run
Locals ==
    /\ pc = "scan"
    /\ files = <<>> /\ recs = <<>> /\ year = <<>>
    /\ genders = <<>> /\ ages = <<>>
    /\ ref = NoTile /\ i = 0
    /\ mat = <<>> /\ row = <<>> /\ tiles = <<>> /\ gi = 0 /\ ai = 0
    /\ data = NoArray /\ ds = NoDataset
    /\ pending = {} /\ computed = <<>> /\ reads = <<>>
    /\ output = NoOutput /\ log = <<>> /\ exit = NoExit

\* the folder holds the tiles of a listing; at most one of them differs from the
\* others, in one property
Folder(order, odd, kind) ==
    /\ tuples = [k \in DOMAIN order |-> CatalogTuples[order[k]]]
    /\ listing = [k \in DOMAIN order |-> BuildName(CatalogTuples[order[k]])]
    /\ disk = [fn \in { BuildName(CatalogTuples[order[k]]) : k \in DOMAIN order } |->
                 LET k == CHOOSE k \in DOMAIN order :
                               BuildName(CatalogTuples[order[k]]) = fn
                 IN  TileFile(IF k = odd THEN Deviate(BaseTile, kind) ELSE BaseTile,
                              order[k])]

\* the catalog entries whose names the scan keeps and the regex matches
WellNamed == { k \in DOMAIN CatalogTuples :
                 LET fn == BuildName(CatalogTuples[k])
                 IN  EndsWithTif(Lower(fn)) /\ Match(fn) }

\* a folder of tiles of one geometry under any names, or a folder of well-named
\* tiles one of which differs from the others in one property
Init ==
    /\ \E order \in Listings(MaxFiles) :
          \/ Folder(order, 0, "none")
          \/ /\ Range(order) \subseteq WellNamed
             /\ \E odd \in DOMAIN order, kind \in Deviations : Folder(order, odd, kind)
    /\ YEAR_FILTER \in {<<>>, Y2024, Y2025}
    /\ Locals

\* sys.exit(msg), or an uncaught exception
Abort(kind, file) ==
    /\ pc' = "exit"
    /\ exit' = [kind |-> kind, file |-> file]

(***************************************************************************)
(* 1) Scan folder                                                          *)
(***************************************************************************)
TifFiles(names) == SelectSeq(names, LAMBDA f : EndsWithTif(Lower(f)))

Scan ==
    /\ pc = "scan"
    /\ files' = TifFiles(listing)
    /\ log' = log \o << Msg("[1/9] Scanning input folder", <<>>),
                        Msg("Found tif files", <<Len(files')>>) >>
    /\ IF files' = <<>>
       THEN Abort("No TIFFs found", <<>>)
       ELSE pc' = "parse" /\ exit' = exit
    /\ UNCHANGED <<tuples, listing, disk, YEAR_FILTER, recs, year, genders, ages,
                   ref, i, mat, row, tiles, gi, ai, data, ds, pending, computed,
                   reads, output>>

(***************************************************************************)
(* 2) Parse filenames                                                      *)
(***************************************************************************)
ParseAll(names) ==
    LET matched == SelectSeq(names, Match)
    IN  [k \in DOMAIN matched |-> MakeRec(matched[k])]

Parse ==
    /\ pc = "parse"
    /\ recs' = ParseAll(files)
    /\ IF recs' = <<>>
       THEN Abort("No files matched regex", <<>>)
       ELSE pc' = "select" /\ exit' = exit
    /\ UNCHANGED <<tuples, listing, disk, YEAR_FILTER, files, year, genders, ages,
                   ref, i, mat, row, tiles, gi, ai, data, ds, pending, computed,
                   reads, output, log>>

\* years = sorted({r["year"] for r in recs})
Years(rs) == SortedStr({ rs[k].year : k \in DOMAIN rs })

\* the selection with years[0] in place of years[-1]
ActiveYearEarliest(filter, rs) ==
    IF filter # <<>> THEN filter ELSE Years(rs)[1]

\* year = str(YEAR_FILTER) if YEAR_FILTER else years[-1]
ActiveYear(filter, rs) ==
    IF filter # <<>> THEN filter ELSE Years(rs)[Len(Years(rs))]

\* recs = [r for r in recs if r["year"] == year]
FilterYear(rs, yr) == SelectSeq(rs, LAMBDA r : r.year = yr)

\* the gender codes deduplicated but left in listing order
GendersAsListed(rs) == FirstSeen([k \in DOMAIN rs |-> rs[k].gender])

\* genders = sorted({r["gender"] for r in recs})
Genders(rs) == SortedStr({ rs[k].gender : k \in DOMAIN rs })

\* ages = sorted({r["age"] for r in recs}, key=int)
Ages(rs) == SortedByInt({ rs[k].age : k \in DOMAIN rs })

Select ==
    /\ pc = "select"
    /\ year' = ActiveYear(YEAR_FILTER, recs)
    /\ recs' = FilterYear(recs, year')
    /\ genders' = Genders(recs')
    /\ ages' = Ages(recs')
    /\ log' = log \o << Msg("Using year", <<year', Len(recs')>>),
                        Msg("Genders", genders'), Msg("Ages", ages') >>
    /\ pc' = "inspect"
    /\ UNCHANGED <<tuples, listing, disk, YEAR_FILTER, files, ref, i, mat, row,
                   tiles, gi, ai, data, ds, pending, computed, reads, output, exit>>

(***************************************************************************)
(* 3) Inspect sample raster                                                *)
(***************************************************************************)
\* what the header of an opened dataset gives: no pixel is read
Header(t) ==
    [crs |-> t.crs, transform |-> t.transform, height |-> t.height,
     width |-> t.width, dtype |-> t.dtype, nodata |-> t.nodata]

Inspect ==
    /\ pc = "inspect"
    /\ IF recs = <<>>
       THEN \* recs[0] raises IndexError
            /\ Abort("IndexError", <<>>)
            /\ UNCHANGED <<ref, i, log>>
       ELSE /\ ref' = Header(disk[recs[1].filename])
            /\ log' = log \o << Msg("[3/9] Inspecting sample raster", recs[1].filename),
                                Msg("Shape", ref') >>
            /\ i' = 1
            /\ pc' = "check"
            /\ exit' = exit
    /\ UNCHANGED <<tuples, listing, disk, YEAR_FILTER, files, recs, year, genders,
                   ages, mat, row, tiles, gi, ai, data, ds, pending, computed,
                   reads, output>>

(***************************************************************************)
(* 4) Consistency check: one turn of the loop over recs                    *)
(***************************************************************************)
\* the check without the comparison of the transforms
MismatchCrsShape(s, r) ==
    IF s.crs # r.crs THEN "CRS mismatch"
    ELSE IF <<s.height, s.width>> # <<r.height, r.width>> THEN "Shape mismatch"
    ELSE ""

\* the first of the three tests that fails for a tile, "" when none does
Mismatch(s, r) ==
    IF s.crs # r.crs THEN "CRS mismatch"
    ELSE IF s.transform # r.transform THEN "Transform mismatch"
    ELSE IF <<s.height, s.width>> # <<r.height, r.width>> THEN "Shape mismatch"
    ELSE ""

CheckTile ==
    /\ pc = "check"
    /\ LET fn == recs[i].filename
           bad == Mismatch(Header(disk[fn]), ref)
       IN  IF bad # ""
           THEN /\ Abort(bad, fn)
                /\ UNCHANGED <<i, log>>
           ELSE /\ log' = IF i % 10 = 0 \/ i = Len(recs)
                          THEN Append(log, Msg("checked", <<i, Len(recs)>>))
                          ELSE log
                /\ i' = i + 1
                /\ pc' = IF i = Len(recs) THEN "build" ELSE "check"
                /\ exit' = exit
    /\ UNCHANGED <<tuples, listing, disk, YEAR_FILTER, files, recs, year, genders,
                   ages, ref, mat, row, tiles, gi, ai, data, ds, pending, computed,
                   reads, output>>

(***************************************************************************)
(* 5) Build lazy dask array                                                *)
(***************************************************************************)
Key(r) == <<r.gender, r.age>>

\* mat = {(r["gender"], r["age"]): r["filename"] for r in recs}: of two records
\* with one key, the later one stays
MatOf(rs) ==
    [key \in { Key(rs[k]) : k \in DOMAIN rs } |->
        LET last == CHOOSE k \in DOMAIN rs :
                        /\ Key(rs[k]) = key
                        /\ \A j \in DOMAIN rs : Key(rs[j]) = key => j <= k
        IN  rs[last].filename]

\* mat.get(key): None, here the empty name, for a key the dict does not hold
Get(m, key) == IF key \in DOMAIN m THEN m[key] ELSE <<>>

BuildMatrix ==
    /\ pc = "build"
    /\ log' = Append(log, Msg("[5/9] Building dask array (lazy)", <<>>))
    /\ mat' = MatOf(recs)
    /\ tiles' = <<>>
    /\ row' = <<>>
    /\ gi' = 1
    /\ ai' = 1
    /\ pc' = "tiles"
    /\ UNCHANGED <<tuples, listing, disk, YEAR_FILTER, files, recs, year, genders,
                   ages, ref, i, data, ds, pending, computed, reads, output, exit>>

\* da.zeros((h,w), chunks=(1024,1024)): the dtype left to its default
ZerosDefaultDtype(h, w, dtype) ==
    [kind |-> "zeros", fp |-> <<>>, shape |-> <<h, w>>, dtype |-> "float64",
     parts |-> <<>>]

\* da.zeros((h,w), dtype=dtype, chunks=(1024,1024))
Zeros(h, w, dtype) ==
    [kind |-> "zeros", fp |-> <<>>, shape |-> <<h, w>>, dtype |-> dtype,
     parts |-> <<>>]

\* da.from_delayed(dask.delayed(reader)(), shape=(h,w), dtype=dtype), the reader
\* holding the path it was defined with
FromDelayed(fp, h, w, dtype) ==
    [kind |-> "from_delayed", fp |-> fp, shape |-> <<h, w>>, dtype |-> dtype,
     parts |-> <<>>]

\* da.stack(parts, axis=0)
Stack(parts) ==
    [kind |-> "stack", fp |-> <<>>, shape |-> <<Len(parts)>> \o parts[1].shape,
     dtype |-> parts[1].dtype, parts |-> parts]

\* the reads computing a 2-D deferred array executes
ReadsOf(arr) == IF arr.kind = "from_delayed" THEN <<arr.fp>> ELSE <<>>

\* the reads of dask.delayed(reader()), which calls the reader at once
ReadsOfEagerCall(arr) == ReadsOf(arr)

\* the reads building a deferred array executes: none, dask.delayed(reader)()
\* only records the call
ReadsAtBuild(arr) == <<>>

\* one turn of the inner loop, and the end of the outer turn after the last age
BuildTile ==
    /\ pc = "tiles"
    /\ LET g   == genders[gi]
           a   == ages[ai]
           fn  == Get(mat, <<g, a>>)
           arr == IF fn = <<>>
                  THEN Zeros(ref.height, ref.width, ref.dtype)
                  ELSE FromDelayed(fn, ref.height, ref.width, ref.dtype)
           full == Append(row, arr)
       IN  /\ log' = IF fn = <<>>
                     THEN Append(log, Msg("MISSING tile", <<g, a>>))
                     ELSE log
           /\ reads' = reads \o ReadsAtBuild(arr)
           /\ IF ai < Len(ages)
              THEN /\ row' = full
                   /\ ai' = ai + 1
                   /\ UNCHANGED <<tiles, gi, pc>>
              ELSE /\ tiles' = Append(tiles, Stack(full))
                   /\ row' = <<>>
                   /\ ai' = 1
                   /\ gi' = gi + 1
                   /\ pc' = IF gi < Len(genders) THEN "tiles" ELSE "assemble"
    /\ UNCHANGED <<tuples, listing, disk, YEAR_FILTER, files, recs, year, genders,
                   ages, ref, i, mat, data, ds, pending, computed, output, exit>>

(***************************************************************************)
(* 6) Build coords and the dataset                                         *)
(***************************************************************************)
\* compute_coords, in half units: twice c + (k + 0.5) * a + 0.5 * b
CoordsX(t, w) == [k \in 1..w |-> 2 * t.c + (2 * (k - 1) + 1) * t.a + t.b]
CoordsY(t, h) == [k \in 1..h |-> 2 * t.f + (2 * (k - 1) + 1) * t.e + t.d]

NorthUp(t) == t.b = 0 /\ t.d = 0

\* np.arange(len(genders))
GenderIds(gs) == [k \in DOMAIN gs |-> k - 1]

\* [int(a) for a in ages]
AgeIds(as) == [k \in DOMAIN as |-> IntOf(as[k])]

\* transform.to_gdal()
ToGdal(t) == <<t.c, t.a, t.b, t.f, t.d, t.e>>

Assemble ==
    /\ pc = "assemble"
    /\ data' = Stack(tiles)
    /\ log' = log \o << Msg("Dask array shape", data'.shape),
                        Msg("[6/9] Building coordinates", <<>>) >>
                  \o (IF NorthUp(ref.transform) THEN <<>>
                      ELSE << Msg("WARNING: grid is rotated/sheared", <<>>) >>)
    /\ ds' = [population |-> data',
              gender |-> GenderIds(genders),
              age_group |-> AgeIds(ages),
              x |-> CoordsX(ref.transform, ref.width),
              y |-> CoordsY(ref.transform, ref.height),
              year |-> year,
              crs |-> ref.crs,
              GeoTransform |-> ToGdal(ref.transform)]
    /\ pc' = "write"
    /\ UNCHANGED <<tuples, listing, disk, YEAR_FILTER, files, recs, year, genders,
                   ages, ref, i, mat, row, tiles, gi, ai, pending, computed, reads,
                   output, exit>>

(***************************************************************************)
(* 7) Write NetCDF: the deferred computations run, in any order            *)
(***************************************************************************)
Slabs(arr) == { <<g, a>> : g \in 1..arr.shape[1], a \in 1..arr.shape[2] }

\* ds.to_netcdf creates the file with its coordinates and attributes and starts
\* the store of the population variable
BeginWrite ==
    /\ pc = "write"
    /\ log' = Append(log, Msg("[7/9] Writing NetCDF (streamed with dask)", <<>>))
    /\ output' = [exists |-> TRUE, ds |-> ds, slabs |-> <<>>]
    /\ pending' = Slabs(ds.population)
    /\ pc' = "store"
    /\ UNCHANGED <<tuples, listing, disk, YEAR_FILTER, files, recs, year, genders,
                   ages, ref, i, mat, row, tiles, gi, ai, data, ds, computed, reads,
                   exit>>

\* what computing a 2-D deferred array returns: reader() opens the file and
\* returns src.read(1) as it is; the zeros are of the declared shape and dtype
Compute(arr) ==
    IF arr.kind = "from_delayed" THEN disk[arr.fp].band1
    ELSE Array(arr.shape[1], arr.shape[2], arr.dtype, 0)

ComputeSlab(g, a) ==
    /\ pc = "store"
    /\ <<g, a>> \in pending
    /\ LET arr == ds.population.parts[g].parts[a]
       IN  /\ reads' = reads \o ReadsOf(arr)
           /\ computed' = computed @@ (<<g, a>> :> Compute(arr))
           /\ output' = [output EXCEPT !.slabs = @ @@ (<<g, a>> :> Compute(arr).px)]
    /\ pending' = pending \ {<<g, a>>}
    /\ UNCHANGED <<tuples, listing, disk, YEAR_FILTER, pc, files, recs, year,
                   genders, ages, ref, i, mat, row, tiles, gi, ai, data, ds, log,
                   exit>>

FinishWrite ==
    /\ pc = "store"
    /\ pending = {}
    /\ log' = Append(log, Msg("Done. NetCDF written", <<>>))
    /\ pc' = "done"
    /\ UNCHANGED <<tuples, listing, disk, YEAR_FILTER, files, recs, year, genders,
                   ages, ref, i, mat, row, tiles, gi, ai, data, ds, pending, computed,
                   reads, output, exit>>

Next ==
    \/ Scan
    \/ Parse
    \/ Select
    \/ Inspect
    \/ CheckTile
    \/ BuildMatrix
    \/ BuildTile
    \/ Assemble
    \/ BeginWrite
    \/ \E slab \in pending : ComputeSlab(slab[1], slab[2])
    \/ FinishWrite

Spec == Init /\ [][Next]_vars

(***************************************************************************)
(* The classifier alone: one name built from a tuple, scanned and parsed   *)
(***************************************************************************)
Countries == { <<"t","c","d">>, <<"K","E","N">>, <<"a","Z","q">> }
GenderLetters == { <<"f">>, <<"m">>, <<"t">>, <<"F">>, <<"T">>, <<"x">>, <<"A">> }
AgeCodes == { <<"0","0">>, <<"0","7">>, <<"1","0">>, <<"9","9">> }
Periods == { Y2025, <<"0","0","0","1">> }
Qualifiers == { <<>>, <<"_","v","1">>, <<"-","R",".","t","i","f">>, <<"_">> }
Extensions == { Tif, <<".","T","I","F">> }

TupleSpace ==
    [country : Countries, sep : Separators \X Separators \X Separators,
     gender : GenderLetters, age : AgeCodes, year : Periods, qual : Qualifiers,
     ext : Extensions]

ClassifyInit ==
    /\ \E t \in TupleSpace :
          /\ tuples = <<t>>
          /\ listing = <<BuildName(t)>>
          /\ disk = [fn \in {BuildName(t)} |-> TileFile(BaseTile, 1)]
    /\ YEAR_FILTER = <<>>
    /\ Locals

ClassifyNext == Scan \/ Parse

SpecClassify == ClassifyInit /\ [][ClassifyNext]_vars

(***************************************************************************)
(* Properties                                                              *)
(***************************************************************************)
\* the cohort has been selected (year is set by Select and never empty after it)
Selected == year # <<>>

\* the records of every name of the folder that the scan keeps and the regex matches
Parsed == ParseAll(TifFiles(listing))

MismatchKinds == {"CRS mismatch", "Transform mismatch", "Shape mismatch"}

\* the tile differs from the sample tile in CRS, in a coefficient, or in shape
Differs(fn) ==
    LET t == disk[fn]
        r == disk[recs[1].filename]
    IN  \/ t.crs # r.crs
        \/ \E k \in Coefficients : t.transform[k] # r.transform[k]
        \/ t.height # r.height
        \/ t.width # r.width

\* the property a mismatch message names does differ for the file it names
NamedPropertyDiffers ==
    LET t == disk[exit.file]
        r == disk[recs[1].filename]
    IN  /\ exit.kind = "CRS mismatch" => t.crs # r.crs
        /\ exit.kind = "Transform mismatch" =>
               \E k \in Coefficients : t.transform[k] # r.transform[k]
        /\ exit.kind = "Shape mismatch" =>
               <<t.height, t.width>> # <<r.height, r.width>>

\* C1: when a selected tile differs from the reference tile in CRS, in a single
\* transform coefficient or in (rows, cols), the run never reaches the grid builder
\* and, once over, has ended in a mismatch abort that names a differing selected
\* file and a property in which it differs, with no deferred read constructed, no
\* pixel read and no output written; when every selected tile matches, no
\* mismatch abort happens.
GeometryMismatchAborts ==
    (Selected /\ recs # <<>>) =>
        LET odd == { k \in DOMAIN recs : Differs(recs[k].filename) }
        IN  /\ (odd # {}) => pc \in {"inspect", "check", "exit"}
            /\ (odd # {} /\ pc = "exit") =>
                   /\ exit.kind \in MismatchKinds
                   /\ \E k \in odd : exit.file = recs[k].filename
                   /\ NamedPropertyDiffers
                   /\ tiles = <<>> /\ row = <<>> /\ data = NoArray
                   /\ reads = <<>>
                   /\ ~output.exists
            /\ (odd = {}) => exit = NoExit

\* C1 witness: a run over two or more selected tiles aborted on a tile whose
\* transform differs from the sample's in the coefficient c alone
GeometryMismatchSeen ==
    /\ pc = "exit"
    /\ exit.kind = "Transform mismatch"
    /\ Len(recs) >= 2
    /\ disk[exit.file].transform.c # ref.transform.c
    /\ disk[exit.file].transform.a = ref.transform.a

\* the set of (gender, age) keys for which a filtered record exists
KeysOf(rs) == { Key(rs[k]) : k \in DOMAIN rs }

\* how many notices of one missing combination the log holds
MissingNotices(g, a) ==
    Cardinality({ k \in DOMAIN log :
                    log[k].kind = "MISSING tile" /\ log[k].args = <<g, a>> })

\* C2: once the grid is built its shape is (distinct genders, distinct ages,
\* reference rows, reference cols); each combination without a file has exactly
\* one MISSING notice and each combination with a file has none; and the computed
\* slab of a combination without a file is all zeros of the reference shape and
\* dtype.
GridShapeAndFiller ==
    (pc \in {"write", "store", "done"}) =>
        LET gs == { recs[k].gender : k \in DOMAIN recs }
            as == { recs[k].age : k \in DOMAIN recs }
            sample == disk[recs[1].filename]
        IN  /\ data.shape = <<Cardinality(gs), Cardinality(as),
                              sample.height, sample.width>>
            /\ \A g \in gs, a \in as :
                   MissingNotices(g, a) =
                       (IF <<g, a>> \in KeysOf(recs) THEN 0 ELSE 1)
            /\ \A slab \in DOMAIN computed :
                   <<genders[slab[1]], ages[slab[2]]>> \notin KeysOf(recs) =>
                       /\ computed[slab].shape = <<sample.height, sample.width>>
                       /\ computed[slab].dtype = sample.dtype
                       /\ \A p \in DOMAIN computed[slab].px : computed[slab].px[p] = 0

\* C2 witness: a finished run whose grid has a combination without a file and a
\* combination with one
MissingAndPresentSeen ==
    /\ pc = "done"
    /\ \E g \in Range(genders), a \in Range(ages) : <<g, a>> \notin KeysOf(recs)
    /\ \E slab \in DOMAIN computed : computed[slab].px[<<1, 1>>] # 0

\* C3: when a name parses but no record carries the selected period, the run
\* ends in the abort "no records for selected period", which names the period.
NoRecordsForPeriodAbort ==
    (pc = "exit" /\ Selected /\ recs = <<>>) =>
        /\ exit.kind = "No records for selected period"
        /\ exit.file = year

\* C4: the active period is the configured one when one is configured, else the
\* greatest period among the parsed records; the filtered records are exactly
\* the parsed records of that period; every file bound to a slab is of it.
ActivePeriodSelected ==
    Selected =>
      LET parsed == Parsed
      IN
        /\ (YEAR_FILTER # <<>>) => year = YEAR_FILTER
        /\ (YEAR_FILTER = <<>>) =>
               /\ \E k \in DOMAIN parsed : parsed[k].year = year
               /\ \A k \in DOMAIN parsed : IntOf(parsed[k].year) <= IntOf(year)
        /\ \A k \in DOMAIN recs : recs[k].year = year
        /\ \A k \in DOMAIN parsed : parsed[k].year = year => parsed[k] \in Range(recs)
        /\ \A k \in DOMAIN recs : recs[k] \in Range(parsed)
        /\ \A key \in DOMAIN mat : GroupYear(mat[key]) = year
        /\ \A k \in DOMAIN reads : GroupYear(reads[k]) = year

\* C4 witness: no period configured, records of two periods parsed, and the run
\* finished on the later one
LatestPeriodSeen ==
    /\ pc = "done"
    /\ YEAR_FILTER = <<>>
    /\ year = Y2025
    /\ LET parsed == Parsed IN \E k \in DOMAIN parsed : parsed[k].year = Y2024
    /\ reads # <<>>

\* the qualifier is absent, or a separator followed by at least one character
WellFormedQualifier(q) ==
    \/ q = <<>>
    \/ Len(q) >= 2 /\ q[1] \in Separators /\ \A k \in 2..Len(q) : q[k] # "\n"

\* the record the round trip expects for the tuple the name was built from
RoundTrip(t) ==
    /\ exit = NoExit
    /\ recs = << [filename |-> BuildName(t), gender |-> Lower(t.gender),
                  age |-> t.age, year |-> t.year] >>

\* C5 as stated: every name built to the pattern from a tuple with any single
\* letter as axis 1 parses and gives the tuple back.
RoundTripAnyLetter ==
    (pc \notin {"scan", "parse"} /\ WellFormedQualifier(tuples[1].qual)) =>
        RoundTrip(tuples[1])

\* C5 amended: every name built to the pattern from a tuple whose axis-1 letter
\* is f, m or t in either case parses and gives back the axis-1 letter
\* lower-cased and the axis-2 and period digit strings as written.
RoundTripGenderCodes ==
    (/\ pc \notin {"scan", "parse"}
     /\ WellFormedQualifier(tuples[1].qual)
     /\ Lower(tuples[1].gender) \in {<<"f">>, <<"m">>, <<"t">>}) =>
        RoundTrip(tuples[1])

\* C5 witness: an upper-case axis-1 letter, '-' separators, leading zeros, a
\* qualifier and an upper-case extension parsed back
RoundTripSeen ==
    /\ pc = "select"
    /\ tuples[1].gender = <<"T">>
    /\ tuples[1].sep = <<"-", "-", "-">>
    /\ tuples[1].qual = <<"-","R",".","t","i","f">>
    /\ tuples[1].ext = <<".","T","I","F">>
    /\ recs[1].gender = <<"t">>
    /\ recs[1].age = <<"0","7">>
    /\ recs[1].year = <<"0","0","0","1">>

\* C6: when a file with the extension fails the pattern while another parses,
\* the run goes on without it and a warning about the unparsed files is logged;
\* when every such file parses, no such warning is logged.
UnparsedFilesWarned ==
    LET warned == \E k \in DOMAIN log : log[k].kind = "WARNING: unparsed files"
        parsed == Parsed
    IN  (pc \notin {"scan", "parse"} /\ parsed # <<>>) =>
            /\ exit.kind # "No files matched regex"
            /\ \A k \in DOMAIN recs : Match(recs[k].filename)
            /\ warned <=> (Len(parsed) < Len(files))

\* C7: no band-1 read is executed before the streamed write begins; a completed
\* write has read every file bound to a slab, and has read no other file.
ReadsOnlyDuringWrite ==
    /\ (pc \notin {"store", "done"}) => reads = <<>>
    /\ (pc = "done") =>
           /\ \A key \in DOMAIN mat : mat[key] \in Range(reads)
           /\ \A k \in DOMAIN reads : \E key \in DOMAIN mat : mat[key] = reads[k]

\* C7 witness: a finished write that read the tile of a later slab before the
\* tile of an earlier one
ReadsOutOfOrderSeen ==
    /\ pc = "done"
    /\ Len(reads) >= 2
    /\ reads[1] = Get(mat, <<genders[Len(genders)], ages[Len(ages)]>>)
    /\ reads[Len(reads)] = Get(mat, <<genders[1], ages[1]>>)

\* C8: the gender axis is the strictly ascending sequence of the lower-cased
\* gender codes of the filtered records and the age axis the sequence of their
\* age codes strictly ascending by value; slab (gi, ai) is bound to the file
\* recorded for (genders[gi], ages[ai]); the gender coordinate is 0..n-1 and the
\* age_group coordinate the value of each age code.
AxesOrdered ==
    /\ Selected =>
           /\ Range(genders) = { Lower(GroupGender(recs[k].filename)) : k \in DOMAIN recs }
           /\ \A k \in 1..(Len(genders) - 1) : StrLess(genders[k], genders[k + 1])
           /\ Range(ages) = { recs[k].age : k \in DOMAIN recs }
           /\ \A k \in 1..(Len(ages) - 1) : IntOf(ages[k]) < IntOf(ages[k + 1])
    /\ (pc \in {"write", "store", "done"}) =>
           /\ \A g \in DOMAIN genders, a \in DOMAIN ages :
                  LET arr == data.parts[g].parts[a]
                      key == <<genders[g], ages[a]>>
                  IN  IF key \in DOMAIN mat
                      THEN arr.kind = "from_delayed" /\ arr.fp = mat[key]
                      ELSE arr.kind = "zeros"
           /\ ds.gender = [k \in DOMAIN genders |-> k - 1]
           /\ \A k \in DOMAIN ages : ds.age_group[k] = IntOf(ages[k])
           /\ Len(ds.age_group) = Len(ages)
    /\ \A slab \in DOMAIN computed :
           LET key == <<genders[slab[1]], ages[slab[2]]>>
           IN  key \in DOMAIN mat => computed[slab] = disk[mat[key]].band1

\* C8 witness: a folder listed with a tile of gender m and age 01 before a tile
\* of gender f and age 00, written with the axes f, m and 00, 01
AxesReorderedSeen ==
    /\ pc = "done"
    /\ Len(recs) >= 2
    /\ recs[1].gender = <<"m">>
    /\ recs[2].gender = <<"f">>
    /\ genders = << <<"f">>, <<"m">> >>
    /\ ages = << <<"0","0">>, <<"0","1">> >>

\* C9: once the tile matrix is built every filtered record is the source of the
\* slab of its (gender, age) combination: no two records share a key.
EveryRecordBacksASlab ==
    (pc \in {"tiles", "assemble", "write", "store", "done"}) =>
        /\ \A k \in DOMAIN recs : mat[Key(recs[k])] = recs[k].filename
        /\ \A j, k \in DOMAIN recs : Key(recs[j]) = Key(recs[k]) => j = k

\* C10: the array a deferred read returns when executed has the shape and the
\* dtype declared for its handle, which are those of the sample tile.
ReadMatchesDeclared ==
    \A slab \in DOMAIN computed :
        LET arr == ds.population.parts[slab[1]].parts[slab[2]]
        IN  arr.kind = "from_delayed" =>
                /\ computed[slab].shape = arr.shape
                /\ computed[slab].dtype = arr.dtype
                /\ arr.shape = <<ref.height, ref.width>>
                /\ arr.dtype = ref.dtype

====
